---- MODULE Spec2Model ----
(***************************************************************************)
(* A model of the LLM agent (src/agent/agent.py) and of its four tools     *)
(* (src/agent/tools.py).                                                   *)
(*                                                                         *)
(* Texts are modelled as values that keep the structure the properties     *)
(* read: a JSON text is the JSON value it encodes, a plain text is the     *)
(* sequence of its fragments (words, numerals, interpolated values).       *)
(***************************************************************************)
EXTENDS Integers, Sequences, FiniteSets, TLC

VARIABLES
    messages,   \* AgentState["messages"]: the transcript of the run
    pc,         \* the node the graph runs next: "agent", "tools", "END", ...
    step,       \* supersteps of the graph executed so far
    script,     \* the responses the language model will still give, in order
    pending,    \* ToolNode: the outcome of each sibling tool call, by position
    finished,   \* ToolNode: positions of the sibling calls in completion order
    chunks,     \* what app.astream(inputs) has yielded so far
    result,     \* what run_query returned
    error,      \* the exception that ended the run, "" for none
    tool_call,  \* tools on their own: the call made
    tool_ret,   \* tools on their own: its outcome
    runs        \* runs on one LLMAgent: the state of each call of run_query

vars == <<messages, pc, step, script, pending, finished, chunks, result, error,
          tool_call, tool_ret, runs>>

loop_vars == <<messages, pc, step, script, pending, finished, chunks, result, error, runs>>

Last(s) == s[Len(s)]

(***************************************************************************)
(* JSON values, as json.loads / response.json() produce them.  A dict      *)
(* keeps its keys in insertion order (k) next to its items (v).            *)
(***************************************************************************)
JNull == [t |-> "null"]
JInvalid == [t |-> "invalid"]          \* a body that is not JSON at all
\* A number is the fraction v/d in lowest terms (d = 1 for a whole number), and
\* is an int or a float as the JSON text wrote it.
JNum(n) == [t |-> "num", v |-> n, d |-> 1, float |-> FALSE]     \* an int, as 1
JFrac(n, d) == [t |-> "num", v |-> n, d |-> d, float |-> TRUE]  \* a float, as 1.0 or 1.5
JStr(s) == [t |-> "str", v |-> s]
JList(s) == [t |-> "list", v |-> s]
JDict(keys, items) == [t |-> "dict", k |-> keys, v |-> items]
JEmptyDict == [t |-> "dict", k |-> <<>>, v |-> <<>>]

\* Python truth value of a JSON value (`not results`, `not pages`).
Truthy(x) ==
    CASE x.t = "null" -> FALSE
      [] x.t = "num" -> x.v # 0
      [] x.t = "str" -> x.v # ""
      [] x.t = "list" -> Len(x.v) > 0
      [] x.t = "dict" -> Len(x.k) > 0

HasKey(d, key) == \E i \in 1..Len(d.k) : d.k[i] = key

\* The pairs <<a, b>> of distinct non-empty strings of the model with a inside b.
SubstringPairs == {<<"current", "no current data">>, <<"missing", "page missing">>}

\* Python's `key in x`, key a non-empty string, on a value that supports it:
\* a key of a dict, an element of a list, a substring of a string.
In(key, x) ==
    CASE x.t = "dict" -> HasKey(x, key)
      [] x.t = "list" -> \E i \in 1..Len(x.v) : x.v[i].t = "str" /\ x.v[i].v = key
      [] x.t = "str" -> x.v = key \/ <<key, x.v>> \in SubstringPairs

\* dict.get(key, default) on a value known to be a dict.
DictGet(d, key, default) == IF HasKey(d, key) THEN d.v[key] ELSE default

(***************************************************************************)
(* Outcomes of a piece of code: it returns a value or raises an exception. *)
(***************************************************************************)
Return(val) == [kind |-> "return", val |-> val]
Raise(exc) == [kind |-> "raise", exc |-> exc]

\* The two kinds of text a tool returns.
JsonText(v) == [fmt |-> "json", val |-> v]
PlainText(s) == [fmt |-> "plain", val |-> s]

\* json.dumps({"error": <message>}), the message kept as its fragments.
ErrorPayload(msg) == JsonText(JDict(<<"error">>, [error |-> JStr(msg)]))

(***************************************************************************)
(* The classes an exception is an instance of (its own and its bases), for *)
(* the exceptions the tools can meet.  requests.exceptions.JSONDecodeError *)
(* derives from both InvalidJSONError (a RequestException) and             *)
(* json.JSONDecodeError.                                                   *)
(***************************************************************************)
Bases(exc) ==
    CASE exc = "ReadTimeout" ->
            {"ReadTimeout", "Timeout", "RequestException", "OSError", "Exception", "BaseException"}
      [] exc = "ConnectTimeout" ->
            {"ConnectTimeout", "ConnectionError", "Timeout", "RequestException",
             "OSError", "Exception", "BaseException"}
      [] exc = "ConnectionError" ->
            {"ConnectionError", "RequestException", "OSError", "Exception", "BaseException"}
      [] exc = "HTTPError" ->
            {"HTTPError", "RequestException", "OSError", "Exception", "BaseException"}
      [] exc = "requests.JSONDecodeError" ->
            {"requests.JSONDecodeError", "InvalidJSONError", "RequestException", "OSError",
             "json.JSONDecodeError", "ValueError", "Exception", "BaseException"}
      [] exc = "ValidationError" ->
            {"ValidationError", "ValueError", "Exception", "BaseException"}
      [] exc \in {"SystemExit", "KeyboardInterrupt", "GeneratorExit"} ->
            {exc, "BaseException"}
      [] exc \in {"KeyError", "IndexError"} ->
            {exc, "LookupError", "Exception", "BaseException"}
      [] exc \in {"ZeroDivisionError", "OverflowError"} ->
            {exc, "ArithmeticError", "Exception", "BaseException"}
      [] OTHER -> {exc, "Exception", "BaseException"}

\* The first `except` clause, in textual order, that catches exc; 0 if none does.
RECURSIVE FirstHandler(_, _, _)
FirstHandler(clauses, exc, i) ==
    IF i > Len(clauses) THEN 0
    ELSE IF clauses[i] \in Bases(exc) THEN i
    ELSE FirstHandler(clauses, exc, i + 1)

(***************************************************************************)
(* The HTTP exchange of requests.get(url, params, timeout=30): the request *)
(* fails with an exception (net) or yields a response with a status and a  *)
(* body.                                                                   *)
(***************************************************************************)
Response(status, body) == [net |-> "ok", status |-> status, body |-> body]
NetFailure(exc) == [net |-> exc, status |-> 0, body |-> JInvalid]

\* requests.get, response.raise_for_status(), response.json(), in that order.
FetchJson(resp) ==
    IF resp.net # "ok" THEN Raise(resp.net)
    ELSE IF resp.status >= 400 /\ resp.status < 600 THEN Raise("HTTPError")
    ELSE IF resp.body.t = "invalid" THEN Raise("requests.JSONDecodeError")
    ELSE Return(resp.body)

\* The strings of the model that read as a number, with the number each reads as.
NumericStrings ==
    ("51" :> JNum(51)) @@ ("1" :> JNum(1)) @@ ("51.5" :> JFrac(103, 2))
    @@ ("15.5" :> JFrac(31, 2)) @@ ("-0.12" :> JFrac(-3, 25))

IsNumeric(x) == x.t = "str" /\ x.v \in DOMAIN NumericStrings

\* pydantic's validation of one field, in lax mode: a float field takes a number
\* or a string that reads as one, an int field takes a number without a
\* fractional part or a string of digits, a str field takes a string only.
ValidFloat(x) == x.t = "num" \/ IsNumeric(x)
ValidInt(x) ==
    \/ x.t = "num" /\ x.d = 1
    \/ IsNumeric(x) /\ NumericStrings[x.v].d = 1
ValidStr(x) == x.t = "str"

\* The value a validated float or int field holds: a string is coerced.
Coerced(x, float) ==
    LET n == IF x.t = "str" THEN NumericStrings[x.v] ELSE x IN
    IF float THEN JFrac(n.v, n.d) ELSE JNum(n.v)

\* The except clauses shared by the three HTTP tools, in textual order.
HttpClauses ==
    <<"Timeout", "RequestException", "json.JSONDecodeError", "ValidationError", "Exception">>

(***************************************************************************)
(* get_coordinates_from_city                                               *)
(***************************************************************************)
GeoNotFound(city_name) ==
    ErrorPayload(<<"Could", "not", "find", "coordinates", "for", "city:", city_name>>)

GeoBody_AbsentOnly(city_name, data) ==
    IF data.t # "dict" THEN Raise("AttributeError")
    ELSE LET results == DictGet(data, "results", JNull) IN
      IF results.t = "null" THEN Return(GeoNotFound(city_name))
      ELSE IF results.t = "list" /\ Len(results.v) = 0 THEN Raise("IndexError")
      ELSE IF results.t = "dict" THEN Raise("KeyError")
      ELSE IF results.t = "str" THEN Raise("AttributeError")
      ELSE IF results.t # "list" THEN Raise("TypeError")
      ELSE LET top_result == results.v[1] IN
        IF top_result.t # "dict" THEN Raise("AttributeError")
        ELSE LET latitude == DictGet(top_result, "latitude", JNull)
                 longitude == DictGet(top_result, "longitude", JNull) IN
          IF ~(ValidFloat(latitude) /\ ValidFloat(longitude)) THEN Raise("ValidationError")
          ELSE Return(JsonText(JDict(<<"latitude", "longitude">>,
                                     [latitude |-> Coerced(latitude, TRUE),
                                      longitude |-> Coerced(longitude, TRUE)])))

\* The body of the try block once the JSON body is decoded.
GeoBody(city_name, data) ==
    IF data.t # "dict" THEN Raise("AttributeError")
    ELSE LET results == DictGet(data, "results", JNull) IN
      IF ~Truthy(results) THEN Return(GeoNotFound(city_name))
      ELSE IF results.t = "dict" THEN Raise("KeyError")
      ELSE IF results.t = "str" THEN Raise("AttributeError")
      ELSE IF results.t # "list" THEN Raise("TypeError")
      ELSE LET top_result == results.v[1] IN
        IF top_result.t # "dict" THEN Raise("AttributeError")
        ELSE LET latitude == DictGet(top_result, "latitude", JNull)
                 longitude == DictGet(top_result, "longitude", JNull) IN
          IF ~(ValidFloat(latitude) /\ ValidFloat(longitude)) THEN Raise("ValidationError")
          ELSE Return(JsonText(JDict(<<"latitude", "longitude">>,
                                     [latitude |-> Coerced(latitude, TRUE),
                                      longitude |-> Coerced(longitude, TRUE)])))

GeoTry(city_name, resp) ==
    LET fetched == FetchJson(resp) IN
    IF fetched.kind = "raise" THEN fetched ELSE GeoBody(city_name, fetched.val)

GeoHandlers(exc) ==
    <<ErrorPayload(<<"Geocoding", "API", "request", "timed", "out.">>),
      ErrorPayload(<<"Error", "connecting", "to", "Geocoding", "API:", exc>>),
      ErrorPayload(<<"Failed", "to", "decode", "JSON", "response", "from", "Geocoding", "API.">>),
      ErrorPayload(<<"Failed", "to", "validate", "coordinates", "schema:", exc>>),
      ErrorPayload(<<"An", "unexpected", "error", "occurred", "during", "coordinate",
                     "retrieval:", exc>>)>>

\* try / except: the value returned, or the exception no clause catches.
TryExcept(outcome, clauses, handlers) ==
    IF outcome.kind = "return" THEN outcome
    ELSE LET h == FirstHandler(clauses, outcome.exc, 1) IN
         IF h = 0 THEN outcome ELSE Return(handlers[h])

get_coordinates_from_city(city_name, resp) ==
    LET outcome == GeoTry(city_name, resp) IN
    TryExcept(outcome, HttpClauses,
              IF outcome.kind = "raise" THEN GeoHandlers(outcome.exc) ELSE <<>>)

(***************************************************************************)
(* get_current_weather                                                     *)
(***************************************************************************)
WeatherNoData ==
    ErrorPayload(<<"No", "current", "weather", "data", "available", "for", "this", "location.">>)

WeatherBody(latitude, longitude, data) ==
    IF data.t \in {"null", "num"} THEN Raise("TypeError")
    ELSE IF ~In("current", data) THEN Return(WeatherNoData)
    ELSE IF data.t # "dict" THEN Raise("TypeError")
    ELSE LET current_data == data.v["current"] IN
      IF current_data.t # "dict" THEN Raise("AttributeError")
      ELSE LET temperature == DictGet(current_data, "temperature_2m", JNull)
               wind_speed == DictGet(current_data, "wind_speed_10m", JNull)
               relative_humidity_2m == DictGet(current_data, "relative_humidity_2m", JNull)
               is_day == DictGet(current_data, "is_day", JNull)
               weather_code == DictGet(current_data, "weather_code", JNull)
               time == DictGet(current_data, "time", JNull) IN
        IF ~(/\ ValidFloat(temperature) /\ ValidFloat(wind_speed)
             /\ ValidFloat(relative_humidity_2m) /\ ValidInt(is_day)
             /\ ValidInt(weather_code) /\ ValidStr(time))
        THEN Raise("ValidationError")
        ELSE Return(JsonText(JDict(
               <<"latitude", "longitude", "temperature", "wind_speed",
                 "relative_humidity_2m", "is_day", "weather_code", "time">>,
               [latitude |-> JFrac(latitude, 1), longitude |-> JFrac(longitude, 1),
                temperature |-> Coerced(temperature, TRUE),
                wind_speed |-> Coerced(wind_speed, TRUE),
                relative_humidity_2m |-> Coerced(relative_humidity_2m, TRUE),
                is_day |-> Coerced(is_day, FALSE),
                weather_code |-> Coerced(weather_code, FALSE),
                time |-> time])))

WeatherTry(latitude, longitude, resp) ==
    LET fetched == FetchJson(resp) IN
    IF fetched.kind = "raise" THEN fetched ELSE WeatherBody(latitude, longitude, fetched.val)

WeatherHandlers(exc) ==
    <<ErrorPayload(<<"Weather", "API", "request", "timed", "out.">>),
      ErrorPayload(<<"Error", "connecting", "to", "Weather", "API:", exc>>),
      ErrorPayload(<<"Failed", "to", "decode", "JSON", "response", "from", "Weather", "API.">>),
      ErrorPayload(<<"Failed", "to", "validate", "weather", "data", "schema:", exc>>),
      ErrorPayload(<<"An", "unexpected", "error", "occurred", "during", "weather",
                     "retrieval:", exc>>)>>

get_current_weather(latitude, longitude, resp) ==
    LET outcome == WeatherTry(latitude, longitude, resp) IN
    TryExcept(outcome, HttpClauses,
              IF outcome.kind = "raise" THEN WeatherHandlers(outcome.exc) ELSE <<>>)

(***************************************************************************)
(* search_wikipedia                                                        *)
(***************************************************************************)
WikiNoPages ==
    ErrorPayload(<<"No", "wikipedia", "article", "found", "for", "the", "query">>)

WikiMissing ==
    ErrorPayload(<<"No", "wikipedia", "article", "found", "the", "query">>)

\* The page looked at: pages[next(iter(pages))], pages being truthy.
\* A dict yields its first key; a list yields its first element, which then
\* indexes the list (from 0, a negative index from the end) if it is an int; a
\* float is no index, whatever its value.
WikiFirstPage(pages) ==
    CASE pages.t = "dict" -> Return(pages.v[pages.k[1]])
      [] pages.t = "list" ->
            LET page_id == pages.v[1] IN
            IF ~(page_id.t = "num" /\ ~page_id.float) THEN Raise("TypeError")
            ELSE IF page_id.v >= Len(pages.v) \/ page_id.v < -Len(pages.v)
                 THEN Raise("IndexError")
            ELSE IF page_id.v >= 0 THEN Return(pages.v[page_id.v + 1])
            ELSE Return(pages.v[Len(pages.v) + page_id.v + 1])
      [] OTHER -> Raise("TypeError")

WikiPage_Unchecked(page_data) ==
    IF page_data.t \in {"null", "num"} THEN Raise("TypeError")
    ELSE IF page_data.t # "dict" THEN Raise("AttributeError")
    ELSE LET title == DictGet(page_data, "title", JNull)
             summary == IF HasKey(page_data, "summary")
                        THEN DictGet(page_data, "summary", JNull)
                        ELSE DictGet(page_data, "extract", JNull)
             url == DictGet(page_data, "fullurl", JNull) IN
      IF ~(ValidStr(title) /\ ValidStr(summary) /\ ValidStr(url))
      THEN Raise("ValidationError")
      ELSE Return(JsonText(JDict(<<"title", "summary", "url">>,
                                 [title |-> title, summary |-> summary, url |-> url])))

WikiPage(page_data) ==
    IF page_data.t \in {"null", "num"} THEN Raise("TypeError")
    ELSE IF In("missing", page_data) THEN Return(WikiMissing)
    ELSE IF page_data.t # "dict" THEN Raise("AttributeError")
    ELSE LET title == DictGet(page_data, "title", JNull)
             summary == IF HasKey(page_data, "summary")
                        THEN DictGet(page_data, "summary", JNull)
                        ELSE DictGet(page_data, "extract", JNull)
             url == DictGet(page_data, "fullurl", JNull) IN
      IF ~(ValidStr(title) /\ ValidStr(summary) /\ ValidStr(url))
      THEN Raise("ValidationError")
      ELSE Return(JsonText(JDict(<<"title", "summary", "url">>,
                                 [title |-> title, summary |-> summary, url |-> url])))

WikiBody(query, data) ==
    IF data.t # "dict" THEN Raise("AttributeError")
    ELSE LET q == DictGet(data, "query", JEmptyDict) IN
      IF q.t # "dict" THEN Raise("AttributeError")
      ELSE LET pages == DictGet(q, "pages", JEmptyDict) IN
        IF ~Truthy(pages) THEN Return(WikiNoPages)
        ELSE LET first == WikiFirstPage(pages) IN
          IF first.kind = "raise" THEN first ELSE WikiPage(first.val)

WikiTry(query, resp) ==
    LET fetched == FetchJson(resp) IN
    IF fetched.kind = "raise" THEN fetched ELSE WikiBody(query, fetched.val)

WikiHandlers(exc) ==
    <<ErrorPayload(<<"Wikipedia", "API", "request", "timed", "out.">>),
      ErrorPayload(<<"Error", "connecting", "to", "Wikipedia", "API:", exc>>),
      ErrorPayload(<<"Failed", "to", "decode", "JSON", "response", "from", "Wikipedia", "API.">>),
      ErrorPayload(<<"Failed", "to", "validate", "Wikipedia", "article", "schema:", exc>>),
      ErrorPayload(<<"An", "unexpected", "error", "occurred", "during", "Wikipedia",
                     "search:", exc>>)>>

search_wikipedia(query, resp) ==
    LET outcome == WikiTry(query, resp) IN
    TryExcept(outcome, HttpClauses,
              IF outcome.kind = "raise" THEN WikiHandlers(outcome.exc) ELSE <<>>)

(***************************************************************************)
(* calculate: eval(expression), then str(result).                          *)
(*                                                                         *)
(* The expression is modelled as its sequence of tokens; a numeral token   *)
(* carries its decimal digits.  Numbers are exact: an int is num/1, a      *)
(* float is the fraction num/den it holds (den a power of two).  The model *)
(* covers the values of bounded magnitude that a float holds exactly;      *)
(* where Python would leave them the evaluation is "Unmodelled" and the    *)
(* expression is not among the inputs.                                     *)
(***************************************************************************)
MaxMagnitude == 1000
MaxDenominator == 64
MaxPowSteps == 31
MaxRepeat == 3

Abs(n) == IF n < 0 THEN -n ELSE n

RECURSIVE GCD(_, _)
GCD(a, b) == IF b = 0 THEN a ELSE GCD(b, a % b)

Digits == <<"0", "1", "2", "3", "4", "5", "6", "7", "8", "9">>

DigitValue(c) == CHOOSE d \in 0..9 : Digits[d + 1] = c

\* int(<decimal digits>)
RECURSIVE DigitsValue(_)
DigitsValue(cs) ==
    IF Len(cs) = 0 THEN 0
    ELSE 10 * DigitsValue(SubSeq(cs, 1, Len(cs) - 1)) + DigitValue(Last(cs))

RECURSIVE NatChars(_)
NatChars(n) == IF n < 10 THEN <<Digits[n + 1]>> ELSE NatChars(n \div 10) \o <<Digits[(n % 10) + 1]>>

\* str(n) for an int n
IntChars(n) == IF n < 0 THEN <<"-">> \o NatChars(-n) ELSE NatChars(n)

\* The digits after the point of rem/den (rem < den, the expansion terminates).
RECURSIVE FracChars(_, _)
FracChars(rem, den) ==
    IF rem = 0 THEN <<>>
    ELSE <<Digits[((rem * 10) \div den) + 1]>> \o FracChars((rem * 10) % den, den)

\* repr(x) for a float x = num/den: the shortest decimal that reads back as x.
FloatChars(num, den) ==
    LET a == Abs(num)
        frac == FracChars(a % den, den)
    IN (IF num < 0 THEN <<"-">> ELSE <<>>) \o NatChars(a \div den) \o <<".">>
       \o (IF frac = <<>> THEN <<"0">> ELSE frac)

\* Tokens: a numeral with its digits (d), an operator or a name with its text (s).
Num(d) == [k |-> "num", s |-> "", d |-> d]
Op(s) == [k |-> "op", s |-> s, d |-> <<>>]
Name(s) == [k |-> "name", s |-> s, d |-> <<>>]
EndOfInput == [k |-> "end", s |-> "", d |-> <<>>]

Tok(toks, i) == IF i <= Len(toks) THEN toks[i] ELSE EndOfInput
IsOp(tok, ops) == tok.k = "op" /\ tok.s \in ops

\* The text of the expression: its tokens, one space apart.
RECURSIVE Concat(_)
Concat(cs) == IF Len(cs) = 0 THEN "" ELSE cs[1] \o Concat(Tail(cs))

TokenText(tok) == IF tok.k = "num" THEN Concat(tok.d) ELSE tok.s

RECURSIVE SourceText(_)
SourceText(toks) ==
    IF Len(toks) = 0 THEN ""
    ELSE IF Len(toks) = 1 THEN TokenText(toks[1])
    ELSE TokenText(toks[1]) \o " " \o SourceText(Tail(toks))

\* ast nodes
TupleNode == [op |-> "tuple"]
NumNode(n) == [op |-> "num", n |-> n]
NameNode(id) == [op |-> "name", id |-> id]
CallNode(f, args) == [op |-> "call", f |-> f, args |-> args]
StarNode(o, a) == [op |-> "star", o |-> o, a |-> a]      \* the argument *a or **a
UnaryNode(o, a) == [op |-> "unary", o |-> o, a |-> a]
BinNode(o, l, r) == [op |-> "bin", o |-> o, l |-> l, r |-> r]

Parsed(ast, pos) == [ok |-> TRUE, ast |-> ast, pos |-> pos]
NoParse == [ok |-> FALSE]

(***************************************************************************)
(* Python's expression grammar, for the tokens modelled, loosest first:    *)
(*   xor_expr: arith ('^' arith)*        arith: term (('+'|'-') term)*     *)
(*   term: factor (('*'|'/') factor)*    factor: ('+'|'-') factor | power  *)
(*   power: primary ['**' factor]        primary: atom ('(' [arg] ')')*    *)
(*   arg: expr | '*' expr | '**' expr                                      *)
(*   atom: NUMBER | NAME | '(' [expr] ')'                                  *)
(* '(' ')' is the empty tuple.  A decimal numeral of several digits that   *)
(* starts with 0 is an error unless all its digits are 0.                  *)
(***************************************************************************)
\* The left-associative binary levels and the operators of each.
BinaryOps(rule) ==
    CASE rule = "xor_expr" -> {"^"}
      [] rule = "arith" -> {"+", "-"}
      [] rule = "term" -> {"*", "/"}

\* The rule of the operands of each binary level: the next tighter one.
OperandRule(rule) ==
    CASE rule = "xor_expr" -> "arith"
      [] rule = "arith" -> "term"
      [] rule = "term" -> "factor"

\* Parse(rule, toks, left, i): parse `rule` from token i on. For the rules that
\* continue an expression ("binary_rest" of a level, "primary_rest") left is what
\* was parsed so far, as [rule, ast].
RECURSIVE Parse(_, _, _, _)
Parse(rule, toks, left, i) ==
    LET tok == Tok(toks, i) IN
    CASE rule \in {"xor_expr", "arith", "term"} ->
            LET first == Parse(OperandRule(rule), toks, left, i) IN
            IF ~first.ok THEN NoParse
            ELSE Parse("binary_rest", toks, [rule |-> rule, ast |-> first.ast], first.pos)
      [] rule = "binary_rest" ->
            IF ~IsOp(tok, BinaryOps(left.rule)) THEN Parsed(left.ast, i)
            ELSE LET right == Parse(OperandRule(left.rule), toks, left, i + 1) IN
              IF ~right.ok THEN NoParse
              ELSE Parse("binary_rest", toks,
                         [rule |-> left.rule, ast |-> BinNode(tok.s, left.ast, right.ast)],
                         right.pos)
      [] rule = "factor" ->
            IF IsOp(tok, {"+", "-"}) THEN
                LET operand == Parse("factor", toks, left, i + 1) IN
                IF ~operand.ok THEN NoParse
                ELSE Parsed(UnaryNode(tok.s, operand.ast), operand.pos)
            ELSE Parse("power", toks, left, i)
      [] rule = "power" ->
            LET atom == Parse("atom", toks, left, i) IN
            IF ~atom.ok THEN NoParse
            ELSE LET primary == Parse("primary_rest", toks,
                                      [rule |-> "primary", ast |-> atom.ast], atom.pos) IN
              IF ~primary.ok THEN NoParse
              ELSE IF ~IsOp(Tok(toks, primary.pos), {"**"}) THEN primary
              ELSE LET exponent == Parse("factor", toks, left, primary.pos + 1) IN
                IF ~exponent.ok THEN NoParse
                ELSE Parsed(BinNode("**", primary.ast, exponent.ast), exponent.pos)
      [] rule = "primary_rest" ->
            IF ~IsOp(tok, {"("}) THEN Parsed(left.ast, i)
            ELSE IF IsOp(Tok(toks, i + 1), {")"})
            THEN Parse("primary_rest", toks,
                       [rule |-> "primary", ast |-> CallNode(left.ast, <<>>)], i + 2)
            ELSE IF IsOp(Tok(toks, i + 1), {"*", "**"})
            THEN LET arg == Parse("xor_expr", toks, left, i + 2) IN
                 IF arg.ok /\ IsOp(Tok(toks, arg.pos), {")"})
                 THEN Parse("primary_rest", toks,
                            [rule |-> "primary",
                             ast |-> CallNode(left.ast,
                                              <<StarNode(Tok(toks, i + 1).s, arg.ast)>>)],
                            arg.pos + 1)
                 ELSE NoParse
            ELSE LET arg == Parse("xor_expr", toks, left, i + 1) IN
                 IF arg.ok /\ IsOp(Tok(toks, arg.pos), {")"})
                 THEN Parse("primary_rest", toks,
                            [rule |-> "primary", ast |-> CallNode(left.ast, <<arg.ast>>)],
                            arg.pos + 1)
                 ELSE NoParse
      [] rule = "atom" ->
            IF tok.k = "num" THEN Parsed(NumNode(DigitsValue(tok.d)), i + 1)
            ELSE IF tok.k = "name" THEN Parsed(NameNode(tok.s), i + 1)
            ELSE IF IsOp(tok, {"("}) /\ IsOp(Tok(toks, i + 1), {")"})
            THEN Parsed(TupleNode, i + 2)
            ELSE IF IsOp(tok, {"("}) THEN
                LET inner == Parse("xor_expr", toks, left, i + 1) IN
                IF inner.ok /\ IsOp(Tok(toks, inner.pos), {")"})
                THEN Parsed(inner.ast, inner.pos + 1) ELSE NoParse
            ELSE NoParse

NothingParsed == [rule |-> "none", ast |-> [op |-> "none"]]

BadNumeral(tok) ==
    /\ tok.k = "num"
    /\ Len(tok.d) > 1
    /\ tok.d[1] = "0"
    /\ \E i \in 1..Len(tok.d) : tok.d[i] # "0"

\* The names eval finds, from the innermost scope out: the local variables of
\* calculate, the globals of its module, the builtins (with the ones that site
\* adds).  True, False and None are the keywords of these constants.
Locals == {"expression"}
Globals == {"json"}
Builtins == {"exit", "quit", "abs", "len", "True", "False", "None"}

\* Names bound in none of these scopes.
UnboundNames == {"x", "y", "foo"}

\* The names of the model; an expression with another name is not among the inputs.
Names == Locals \cup Globals \cup Builtins \cup UnboundNames

\* compile(expression, "<string>", "eval"): the whole input is one expression.
PyParse(toks) ==
    LET whole == Parse("xor_expr", toks, NothingParsed, 1) IN
    IF \E i \in 1..Len(toks) : toks[i].k = "name" /\ toks[i].s \notin Names
    THEN Raise("Unmodelled")
    ELSE IF \E i \in 1..Len(toks) : BadNumeral(toks[i]) THEN Raise("SyntaxError")
    ELSE IF whole.ok /\ whole.pos = Len(toks) + 1 THEN Return(whole.ast)
    ELSE Raise("SyntaxError")

(***************************************************************************)
(* Python's values and operators.                                          *)
(***************************************************************************)
\* nz marks the float -0.0, which str tells apart from 0.0.
IntVal(n) == [t |-> "int", num |-> n, den |-> 1, nz |-> FALSE]
FloatVal(num, den) ==
    LET g == GCD(Abs(num), Abs(den))
        sign == IF den < 0 THEN -1 ELSE 1
    IN [t |-> "float", num |-> sign * (num \div g), den |-> sign * (den \div g), nz |-> FALSE]
\* True and False are the ints 1 and 0 of type bool.
BoolVal(b) == [t |-> "bool", num |-> IF b THEN 1 ELSE 0, den |-> 1, nz |-> FALSE]
NoneVal == [t |-> "None"]
TupleVal == [t |-> "tuple"]                        \* the empty tuple
StrVal(s) == [t |-> "str", s |-> s]
BuiltinVal(id) == [t |-> "builtin", id |-> id]     \* site's exit and quit
FunctionVal(id) == [t |-> "function", id |-> id]   \* a built-in function
ModuleVal(id) == [t |-> "module", id |-> id]

Negative(v) == v.num < 0 \/ (v.num = 0 /\ v.nz)

\* The float zero takes the sign the operation gives it.
SignedZero(v, negative) ==
    IF v.t = "float" /\ v.num = 0 THEN [v EXCEPT !.nz = negative] ELSE v

IsNumber(v) == v.t \in {"int", "float", "bool"}

\* A bool takes part in arithmetic as the int it is.
AsInt(v) == IF v.t = "bool" THEN IntVal(v.num) ELSE v

RECURSIVE IsPowerOfTwo(_)
IsPowerOfTwo(n) == n = 1 \/ (n > 1 /\ n % 2 = 0 /\ IsPowerOfTwo(n \div 2))

\* The values the model holds exactly.
InRange(v) ==
    /\ v.den <= MaxDenominator
    /\ IsPowerOfTwo(v.den)
    /\ Abs(v.num) <= MaxMagnitude * v.den

Modelled(v) == IF InRange(v) THEN Return(v) ELSE Raise("Unmodelled")

ModelledSigned(v, negative) == Modelled(SignedZero(v, negative))

Typed(t, num, den) == IF t = "int" THEN IntVal(num) ELSE FloatVal(num, den)

JoinType(a, b) == IF a.t = "int" /\ b.t = "int" THEN "int" ELSE "float"

\* b ** e for e >= 0, cut off once it leaves the range of the model.
RECURSIVE SatPow(_, _)
SatPow(b, e) ==
    IF e = 0 THEN 1
    ELSE IF Abs(b) <= 1 THEN (IF b = -1 /\ e % 2 = 0 THEN 1 ELSE b)
    ELSE IF e > MaxPowSteps THEN MaxMagnitude * MaxDenominator + 1
    ELSE LET p == SatPow(b, e - 1) IN
         IF Abs(p) > (MaxMagnitude * MaxDenominator) \div Abs(b)
         THEN MaxMagnitude * MaxDenominator + 1 ELSE b * p

RECURSIVE XorNat(_, _)
XorNat(a, b) ==
    IF a = 0 THEN b
    ELSE IF b = 0 THEN a
    ELSE 2 * XorNat(a \div 2, b \div 2) + (((a % 2) + (b % 2)) % 2)

\* a ^ b on ints of either sign (two's complement of unbounded width).
Xor(a, b) ==
    CASE a >= 0 /\ b >= 0 -> XorNat(a, b)
      [] a < 0 /\ b >= 0 -> (0 - XorNat((0 - a) - 1, b)) - 1
      [] a >= 0 /\ b < 0 -> (0 - XorNat(a, (0 - b) - 1)) - 1
      [] OTHER -> XorNat((0 - a) - 1, (0 - b) - 1)

Power(a, b) ==
    IF b.den # 1 THEN Raise("Unmodelled")
    ELSE LET e == b.num
             t == IF e < 0 THEN "float" ELSE JoinType(a, b)
             n == SatPow(a.num, Abs(e))
             d == SatPow(a.den, Abs(e))
         IN IF e < 0 /\ a.num = 0 THEN Raise("ZeroDivisionError")
            ELSE IF Abs(n) > MaxMagnitude * MaxDenominator \/ d > MaxDenominator
            THEN Raise("Unmodelled")
            ELSE IF e < 0 THEN Modelled(FloatVal(d, n))
            ELSE ModelledSigned(Typed(t, n, d), Negative(a) /\ e % 2 = 1)

\* s * n for a str s
RECURSIVE Repeat(_, _)
Repeat(s, n) == IF n <= 0 THEN "" ELSE s \o Repeat(s, n - 1)

\* An operator with an operand that is not a number: + and * on sequences.
SequenceOp(o, a, b) ==
    CASE o = "+" /\ a.t = "tuple" /\ b.t = "tuple" -> Return(TupleVal)
      [] o = "+" /\ a.t = "str" /\ b.t = "str" -> Return(StrVal(a.s \o b.s))
      [] o = "*" /\ a.t = "tuple" /\ b.t \in {"int", "bool"} -> Return(TupleVal)
      [] o = "*" /\ b.t = "tuple" /\ a.t \in {"int", "bool"} -> Return(TupleVal)
      [] o = "*" /\ a.t = "str" /\ b.t \in {"int", "bool"} ->
            IF b.num > MaxRepeat THEN Raise("Unmodelled")
            ELSE Return(StrVal(Repeat(a.s, b.num)))
      [] o = "*" /\ b.t = "str" /\ a.t \in {"int", "bool"} ->
            IF a.num > MaxRepeat THEN Raise("Unmodelled")
            ELSE Return(StrVal(Repeat(b.s, a.num)))
      [] OTHER -> Raise("TypeError")

Arith(o, a, b) ==
         CASE o = "+" ->
                ModelledSigned(
                    Typed(JoinType(a, b), a.num * b.den + b.num * a.den, a.den * b.den),
                    a.nz /\ b.nz)
           [] o = "-" ->
                ModelledSigned(
                    Typed(JoinType(a, b), a.num * b.den - b.num * a.den, a.den * b.den),
                    a.nz /\ b.num = 0 /\ ~b.nz)
           [] o = "*" ->
                IF b.num # 0 /\ Abs(a.num) > (MaxMagnitude * MaxDenominator) \div Abs(b.num)
                THEN Raise("Unmodelled")
                ELSE ModelledSigned(Typed(JoinType(a, b), a.num * b.num, a.den * b.den),
                                    Negative(a) # Negative(b))
           [] o = "/" -> IF b.num = 0 THEN Raise("ZeroDivisionError")
                         ELSE ModelledSigned(FloatVal(a.num * b.den, a.den * b.num),
                                             Negative(a) # Negative(b))
           [] o = "**" -> Power(a, b)
           [] o = "^" -> IF a.t = "int" /\ b.t = "int"
                         THEN Modelled(IntVal(Xor(a.num, b.num)))
                         ELSE Raise("TypeError")

BinOp(o, a, b) ==
    IF ~(IsNumber(a) /\ IsNumber(b)) THEN SequenceOp(o, a, b)
    ELSE IF o = "^" /\ a.t = "bool" /\ b.t = "bool" THEN Return(BoolVal(a.num # b.num))
    ELSE Arith(o, AsInt(a), AsInt(b))

UnaryOp(o, a) ==
    IF ~IsNumber(a) THEN Raise("TypeError")
    ELSE IF o = "-" THEN Return(SignedZero([AsInt(a) EXCEPT !.num = -a.num], ~a.nz))
    ELSE Return(AsInt(a))

\* The value of a name where expression is the argument of calculate.
Lookup(id, expression) ==
    CASE id = "expression" -> Return(StrVal(SourceText(expression)))
      [] id \in Globals -> Return(ModuleVal(id))
      [] id \in {"exit", "quit"} -> Return(BuiltinVal(id))
      [] id \in {"abs", "len"} -> Return(FunctionVal(id))
      [] id \in {"True", "False"} -> Return(BoolVal(id = "True"))
      [] id = "None" -> Return(NoneVal)
      [] id \in UnboundNames -> Raise("NameError")
      [] OTHER -> Raise("Unmodelled")

\* f(*args): exit and quit take at most one argument, abs and len exactly one.
Call(f, args) ==
    CASE f.t = "builtin" /\ Len(args) <= 1 -> Raise("SystemExit")
      [] f.t = "function" /\ Len(args) = 1 /\ f.id = "abs" ->
            IF IsNumber(args[1])
            THEN Return([AsInt(args[1]) EXCEPT !.num = Abs(args[1].num), !.nz = FALSE])
            ELSE Raise("TypeError")
      [] f.t = "function" /\ Len(args) = 1 /\ f.id = "len" ->
            CASE args[1].t = "tuple" -> Return(IntVal(0))
              [] args[1].t = "str" -> Modelled(IntVal(Len(args[1].s)))
              [] OTHER -> Raise("TypeError")
      [] OTHER -> Raise("TypeError")

\* f(*v) unpacks v, an empty tuple or a str (into its characters); f(**v) wants a
\* mapping, which no value of the model is.
CallStarred(f, o, v) ==
    CASE o = "*" /\ v.t = "tuple" -> Call(f, <<>>)
      [] o = "*" /\ v.t = "str" -> Call(f, [i \in 1..Len(v.s) |-> StrVal(SubSeq(v.s, i, i))])
      [] OTHER -> Raise("TypeError")

RECURSIVE PyEval(_, _)
PyEval(ast, expression) ==
    CASE ast.op = "num" -> Modelled(IntVal(ast.n))
      [] ast.op = "tuple" -> Return(TupleVal)
      [] ast.op = "name" -> Lookup(ast.id, expression)
      [] ast.op = "unary" ->
            LET a == PyEval(ast.a, expression) IN
            IF a.kind = "raise" THEN a ELSE UnaryOp(ast.o, a.val)
      [] ast.op = "bin" ->
            LET l == PyEval(ast.l, expression) IN
            IF l.kind = "raise" THEN l
            ELSE LET r == PyEval(ast.r, expression) IN
                 IF r.kind = "raise" THEN r ELSE BinOp(ast.o, l.val, r.val)
      [] ast.op = "call" ->
            LET f == PyEval(ast.f, expression) IN
            IF f.kind = "raise" THEN f
            ELSE IF Len(ast.args) = 0 THEN Call(f.val, <<>>)
            ELSE IF ast.args[1].op = "star"
            THEN LET arg == PyEval(ast.args[1].a, expression) IN
                 IF arg.kind = "raise" THEN arg
                 ELSE CallStarred(f.val, ast.args[1].o, arg.val)
            ELSE LET arg == PyEval(ast.args[1], expression) IN
                 IF arg.kind = "raise" THEN arg ELSE Call(f.val, <<arg.val>>)

\* eval(expression)
eval(expression) ==
    LET parsed == PyParse(expression) IN
    IF parsed.kind = "raise" THEN parsed ELSE PyEval(parsed.val, expression)

\* str(result)
str(v) ==
    CASE v.t = "int" -> IntChars(v.num)
      [] v.t = "float" -> (IF v.nz THEN <<"-">> ELSE <<>>) \o FloatChars(v.num, v.den)
      [] v.t = "bool" -> IF v.num = 1 THEN <<"True">> ELSE <<"False">>
      [] v.t = "None" -> <<"None">>
      [] v.t = "tuple" -> <<"()">>
      [] v.t = "str" -> <<v.s>>
      [] v.t = "builtin" ->
            <<"Use", v.id \o "()", "or", "Ctrl-D", "(i.e.", "EOF)", "to", "exit">>
      [] v.t = "function" -> <<"<built-in", "function", v.id \o ">">>
      \* the file is wherever the module is installed
      [] v.t = "module" -> <<"<module", "'" \o v.id \o "'", "from", "'.../" \o v.id \o "/__init__.py'>">>

CalcClauses == <<"SyntaxError", "NameError", "Exception">>

CalcHandlers(exc) ==
    <<PlainText(<<"Error:", "Invalid", "mathematical", "expression.">>),
      PlainText(<<"Error:", "Invalid", "input", "in", "expression", "(e.g.,",
                  "non-numeric", "characters).">>),
      PlainText(<<"Error", "during", "calculation:", exc>>)>>

CalcTry(expression) ==
    LET evaluated == eval(expression) IN
    IF evaluated.kind = "raise" THEN evaluated
    ELSE Return(PlainText(str(evaluated.val)))

calculate(expression) ==
    LET outcome == CalcTry(expression) IN
    TryExcept(outcome, CalcClauses,
              IF outcome.kind = "raise" THEN CalcHandlers(outcome.exc) ELSE <<>>)

(***************************************************************************)
(* Inputs of the tools.                                                    *)
(***************************************************************************)
Cities == {"London", "imaginary_city_123", ""}

Statuses == {200, 301, 404, 503}

\* requests.get does not return: the request times out, the connection fails, or the
\* process is interrupted while it waits.
NetFailures ==
    {NetFailure("ReadTimeout"), NetFailure("ConnectTimeout"), NetFailure("ConnectionError"),
     NetFailure("KeyboardInterrupt")}

FieldValues ==
    {JNum(51), JFrac(51, 1), JFrac(31, 2), JNull, JStr("abc"), JStr("51"), JStr("15.5")}

GeoEntry(lat, lon) ==
    JDict(<<"name", "latitude", "longitude", "country">>,
          [name |-> JStr("London"), latitude |-> lat, longitude |-> lon,
           country |-> JStr("United Kingdom")])

GeoData(results) == JDict(<<"results">>, [results |-> results])

GeoBodies ==
    {JInvalid, JList(<<>>), JNull, JEmptyDict,
     GeoData(JNull), GeoData(JList(<<>>)), GeoData(JEmptyDict), GeoData(JStr("none")),
     GeoData(JNum(0)), GeoData(JNum(1)),
     GeoData(JList(<<JStr("London")>>)),
     GeoData(GeoEntry(JNum(51), JNum(0)))}
    \cup {GeoData(JList(<<GeoEntry(lat, lon)>>)) : lat \in FieldValues, lon \in FieldValues}
    \cup {GeoData(JList(<<JDict(<<"name">>, [name |-> JStr("London")])>>))}

GeoResponses == NetFailures \cup {Response(s, b) : s \in Statuses, b \in GeoBodies}

Latitudes == {51, 0}
Longitudes == {0, 67}

WeatherCurrent(temp, wind, hum, day, code, time) ==
    JDict(<<"time", "temperature_2m", "relative_humidity_2m", "is_day", "wind_speed_10m",
            "weather_code">>,
          [time |-> time, temperature_2m |-> temp, relative_humidity_2m |-> hum,
           is_day |-> day, wind_speed_10m |-> wind, weather_code |-> code])

WeatherData(current) == JDict(<<"current">>, [current |-> current])

TimeValues == {JStr("2023-10-27T10:00"), JNull, JNum(5)}

WeatherBodies ==
    {JInvalid, JList(<<>>), JNull, JEmptyDict, JNum(5),
     JList(<<JStr("current")>>), JList(<<JStr("abc")>>),
     JStr("current"), JStr("no current data"), JStr("abc"),
     WeatherData(JNull), WeatherData(JList(<<>>)), WeatherData(JEmptyDict)}
    \cup {WeatherData(WeatherCurrent(temp, JNum(12), hum, day, JNum(3), time)) :
            temp \in FieldValues, hum \in FieldValues, day \in FieldValues, time \in TimeValues}
    \cup {WeatherData(WeatherCurrent(JNum(15), wind, JNum(75), JNum(1), code,
                                     JStr("2023-10-27T10:00"))) :
            wind \in FieldValues, code \in FieldValues}

WeatherResponses == NetFailures \cup {Response(s, b) : s \in Statuses, b \in WeatherBodies}

Queries == {"Artificial intelligence", "Zorp the Destroyer"}

WikiTextValues == {JStr("text"), JNull, JNum(5)}

WikiFound(title, extract, url) ==
    JDict(<<"pageid", "title", "extract", "fullurl">>,
          [pageid |-> JNum(1164), title |-> title, extract |-> extract, fullurl |-> url])

WikiFoundSummary(summary, extract) ==
    JDict(<<"title", "summary", "extract", "fullurl">>,
          [title |-> JStr("text"), summary |-> summary, extract |-> extract,
           fullurl |-> JStr("text")])

WikiMissingPage ==
    JDict(<<"title", "missing">>, [title |-> JStr("text"), missing |-> JStr("")])

WikiPages(pages) ==
    JDict(<<"query">>, [query |-> JDict(<<"pages">>, [pages |-> pages])])

FoundPage == WikiFound(JStr("text"), JStr("text"), JStr("text"))

WikiPageValues ==
    {WikiMissingPage, JNull, JNum(0), JStr("text"), JStr("missing"), JStr("page missing"),
     JList(<<>>), JList(<<JStr("missing")>>), JList(<<JStr("text")>>)}
    \cup {WikiFound(title, extract, url) :
            title \in WikiTextValues, extract \in WikiTextValues, url \in WikiTextValues}
    \cup {WikiFoundSummary(summary, extract) :
            summary \in WikiTextValues, extract \in WikiTextValues}

WikiBodies ==
    {JInvalid, JList(<<>>), JNull, JEmptyDict,
     JDict(<<"query">>, [query |-> JNull]), JDict(<<"query">>, [query |-> JEmptyDict]),
     WikiPages(JNull), WikiPages(JEmptyDict), WikiPages(JList(<<>>)),
     WikiPages(JList(<<WikiMissingPage>>)), WikiPages(JStr("text")), WikiPages(JNum(5)),
     WikiPages(JList(<<JNum(0)>>)), WikiPages(JList(<<JNum(1)>>)),
     WikiPages(JList(<<JNum(1), WikiMissingPage>>)), WikiPages(JList(<<JNum(-1), FoundPage>>)),
     WikiPages(JList(<<JNum(-3), FoundPage>>)), WikiPages(JList(<<JFrac(1, 2)>>)),
     WikiPages(JList(<<JNum(1), FoundPage>>)), WikiPages(JList(<<JFrac(1, 1), FoundPage>>)),
     WikiPages(JList(<<JFrac(0, 1), FoundPage>>)),
     WikiPages(JList(<<JStr("missing")>>)),
     WikiPages(JDict(<<"-1", "1164">>, ("-1" :> WikiMissingPage) @@ ("1164" :> FoundPage))),
     WikiPages(JDict(<<"1164", "-1">>, ("-1" :> WikiMissingPage) @@ ("1164" :> FoundPage)))}
    \cup {WikiPages(JDict(<<"1164">>, "1164" :> page)) : page \in WikiPageValues}

WikiResponses == NetFailures \cup {Response(s, b) : s \in Statuses, b \in WikiBodies}

(***************************************************************************)
(* Arithmetic expressions as the caller means them: integer literals, the  *)
(* four basic operators and exponentiation ("pow"), with their structure.  *)
(* Written(e, power) is the text of e with the fewest parentheses that     *)
(* standard precedence allows, exponentiation written with the token       *)
(* `power`.                                                                *)
(***************************************************************************)
Lits == {0, 2, 3, 5, 10}

ArithOps == {"+", "-", "*", "/", "pow"}

Leaves == {NumNode(n) : n \in Lits}

Flat == {BinNode(o, l, r) : o \in ArithOps, l \in Leaves, r \in Leaves}

Exprs ==
    Flat \cup {BinNode(o, l, r) : o \in ArithOps, l \in Flat, r \in Leaves}
         \cup {BinNode(o, l, r) : o \in ArithOps, l \in Leaves, r \in Flat}

Prec(o) == CASE o \in {"+", "-"} -> 1 [] o \in {"*", "/"} -> 2 [] o = "pow" -> 3

NeedsParens(child, o, side) ==
    /\ child.op = "bin"
    /\ \/ Prec(child.o) < Prec(o)
       \/ /\ Prec(child.o) = Prec(o)
          /\ (IF o = "pow" THEN side = "l" ELSE side = "r")

RECURSIVE Written(_, _)
Written(e, power) ==
    IF e.op = "num" THEN <<Num(NatChars(e.n))>>
    ELSE LET operand(child, side) ==
                 IF NeedsParens(child, e.o, side)
                 THEN <<Op("(")>> \o Written(child, power) \o <<Op(")")>>
                 ELSE Written(child, power)
         IN operand(e.l, "l") \o <<Op(IF e.o = "pow" THEN power ELSE e.o)>>
              \o operand(e.r, "r")

NoIntent == [op |-> "none"]

\* "10 + 5 * 2"
TenPlusFiveTimesTwo ==
    <<Num(<<"1", "0">>), Op("+"), Num(<<"5">>), Op("*"), Num(<<"2">>)>>

\* Expressions that are not arithmetic, or not expressions at all.
OtherExpressions ==
    {<<>>,
     <<Num(<<"1", "0">>), Op("+")>>,
     <<Op("("), Num(<<"2">>)>>,
     <<Num(<<"2">>), Num(<<"3">>)>>,
     <<Op("*"), Num(<<"3">>)>>,
     <<Name("x"), Op("+"), Num(<<"1">>)>>,
     <<Name("exit")>>,
     <<Name("exit"), Op("("), Op(")")>>,
     <<Name("quit"), Op("("), Num(<<"0">>), Op(")")>>,
     <<Name("exit"), Op("+"), Num(<<"1">>)>>,
     <<Num(<<"2">>), Op("("), Op(")")>>,
     <<Op("-"), Num(<<"2">>), Op("**"), Num(<<"2">>)>>,
     <<Num(<<"2">>), Op("**"), Op("-"), Num(<<"1">>)>>,
     <<Num(<<"0">>), Op("**"), Op("-"), Num(<<"1">>)>>,
     <<Num(<<"5">>), Op("/"), Num(<<"2">>), Op("^"), Num(<<"1">>)>>,
     <<Num(<<"1">>), Op("/"), Num(<<"0">>), Op("+"), Name("exit"), Op("("), Op(")")>>,
     <<Name("exit"), Op("("), Op(")"), Op("+"), Op("(")>>,
     <<Name("x"), Op("("), Name("exit"), Op("("), Op(")"), Op(")")>>,
     <<Op("("), Op(")")>>,
     <<Op("("), Op("("), Op(")"), Op(")")>>,
     <<Op("("), Op(")"), Op("("), Op(")")>>,
     <<Op("("), Op(")"), Op("+"), Op("("), Op(")")>>,
     <<Op("("), Op(")"), Op("*"), Num(<<"2">>)>>,
     <<Op("("), Op(")"), Op("+"), Num(<<"2">>)>>,
     <<Op("-"), Op("("), Op(")")>>,
     <<Num(<<"0", "0", "7">>)>>,
     <<Num(<<"0", "0">>)>>,
     <<Num(<<"1", "0">>), Op("+"), Num(<<"0", "5">>)>>,
     <<Name("foo"), Op("+"), Num(<<"0", "5">>)>>,
     <<Name("abs")>>,
     <<Name("abs"), Op("("), Op("-"), Num(<<"3">>), Op(")")>>,
     <<Name("abs"), Op("("), Op(")")>>,
     <<Name("abs"), Op("("), Num(<<"1">>), Op("/"), Op("-"), Num(<<"2">>), Op(")")>>,
     <<Name("abs"), Op("("), Name("True"), Op(")")>>,
     <<Name("abs"), Op("("), Name("None"), Op(")")>>,
     <<Name("len"), Op("("), Num(<<"2">>), Op(")")>>,
     <<Name("len"), Op("("), Op("("), Op(")"), Op(")")>>,
     <<Name("len"), Op("("), Name("expression"), Op(")")>>,
     <<Name("expression")>>,
     <<Name("expression"), Op("+"), Name("expression")>>,
     <<Name("expression"), Op("*"), Num(<<"2">>)>>,
     <<Num(<<"0">>), Op("*"), Name("expression")>>,
     <<Name("expression"), Op("+"), Num(<<"1">>)>>,
     <<Name("expression"), Op("("), Op(")")>>,
     <<Name("json")>>,
     <<Name("json"), Op("+"), Num(<<"1">>)>>,
     <<Name("True")>>,
     <<Name("True"), Op("+"), Num(<<"1">>)>>,
     <<Name("True"), Op("^"), Name("False")>>,
     <<Name("True"), Op("^"), Num(<<"1">>)>>,
     <<Op("-"), Name("True")>>,
     <<Op("+"), Name("False")>>,
     <<Name("True"), Op("/"), Name("False")>>,
     <<Name("True"), Op("*"), Op("("), Op(")")>>,
     <<Name("None")>>,
     <<Name("None"), Op("+"), Num(<<"1">>)>>,
     <<Name("None"), Op("("), Op(")")>>,
     <<Name("y")>>,
     <<Name("exit"), Op("("), Op("*"), Op("("), Op(")"), Op(")")>>,
     <<Name("exit"), Op("("), Op("**"), Op("("), Op(")"), Op(")")>>,
     <<Name("exit"), Op("("), Op("*"), Num(<<"2">>), Op(")")>>,
     <<Name("exit"), Op("("), Op("*"), Name("expression"), Op(")")>>,
     <<Name("exit"), Op("("), Op("*"), Name("expression"), Op("*"), Num(<<"0">>), Op(")")>>,
     <<Name("exit"), Op("("), Op("**"), Num(<<"1">>), Op("/"), Num(<<"0">>), Op(")")>>,
     <<Name("abs"), Op("("), Op("*"), Op("("), Op(")"), Op(")")>>,
     <<Name("abs"), Op("("), Op("*"), Op("-"), Num(<<"3">>), Op(")")>>,
     <<Name("len"), Op("("), Op("*"), Name("expression"), Op(")")>>,
     <<Name("len"), Op("("), Op("**"), Op("("), Op(")"), Op(")")>>,
     <<Num(<<"2">>), Op("("), Op("*"), Op("("), Op(")"), Op(")")>>,
     <<Name("foo"), Op("("), Op("*"), Num(<<"1">>), Op("/"), Num(<<"0">>), Op(")")>>,
     <<Op("("), Op("*"), Op("("), Op(")"), Op(")")>>,
     <<Op("*"), Op("("), Op(")")>>,
     <<Name("exit"), Op("("), Op("*"), Op(")")>>}

IsModelled(expression) ==
    LET outcome == CalcTry(expression) IN ~(outcome.kind = "raise" /\ outcome.exc = "Unmodelled")

\* The calls of calculate: the text, and what its writer meant by it, if arithmetic.
CalcCalls ==
    {c \in [expression : OtherExpressions, intent : {NoIntent}, syntax : {"python"}] : TRUE}
    \cup {c \in {[expression |-> Written(e, "**"), intent |-> e, syntax |-> "python"] : e \in Exprs} :
            IsModelled(c.expression)}
    \cup {c \in {[expression |-> Written(e, "^"), intent |-> e, syntax |-> "spec"] : e \in Exprs} :
            IsModelled(c.expression)}

(***************************************************************************)
(* The tools on their own: one call with any argument and any upstream     *)
(* outcome.                                                                *)
(***************************************************************************)
NoCall == [name |-> "none"]
NoRet == [kind |-> "none"]

\* The calls of run_query / stream_query made on one LLMAgent instance.
Runs == {1, 2}

\* A call that has not been made yet.
IdleRun ==
    [pc |-> "idle", messages |-> <<>>, script |-> <<>>, pending |-> <<>>,
     finished |-> <<>>, chunks |-> <<>>, result |-> [kind |-> "none"], error |-> ""]

NoRuns == [r \in Runs |-> IdleRun]

ToolInit ==
    /\ messages = <<>>
    /\ pc = "idle"
    /\ step = 0
    /\ script = <<>>
    /\ pending = <<>>
    /\ finished = <<>>
    /\ chunks = <<>>
    /\ result = PlainText(<<>>)
    /\ error = ""
    /\ tool_call = NoCall
    /\ tool_ret = NoRet
    /\ runs = NoRuns

CallGetCoordinates ==
    \E city_name \in Cities, resp \in GeoResponses :
        /\ tool_call = NoCall
        /\ tool_call' = [name |-> "get_coordinates_from_city",
                         args |-> [city_name |-> city_name], env |-> resp]
        /\ tool_ret' = get_coordinates_from_city(city_name, resp)
        /\ UNCHANGED loop_vars

CallGetWeather ==
    \E latitude \in Latitudes, longitude \in Longitudes, resp \in WeatherResponses :
        /\ tool_call = NoCall
        /\ tool_call' = [name |-> "get_current_weather",
                         args |-> [latitude |-> latitude, longitude |-> longitude],
                         env |-> resp]
        /\ tool_ret' = get_current_weather(latitude, longitude, resp)
        /\ UNCHANGED loop_vars

CallSearchWikipedia ==
    \E query \in Queries, resp \in WikiResponses :
        /\ tool_call = NoCall
        /\ tool_call' = [name |-> "search_wikipedia", args |-> [query |-> query], env |-> resp]
        /\ tool_ret' = search_wikipedia(query, resp)
        /\ UNCHANGED loop_vars

CallCalculate ==
    \E c \in CalcCalls :
        /\ tool_call = NoCall
        /\ tool_call' = [name |-> "calculate", args |-> [expression |-> c.expression],
                         env |-> [intent |-> c.intent, syntax |-> c.syntax]]
        /\ tool_ret' = calculate(c.expression)
        /\ UNCHANGED loop_vars

ToolNext == CallGetCoordinates \/ CallGetWeather \/ CallSearchWikipedia \/ CallCalculate

ToolSpec == ToolInit /\ [][ToolNext]_vars

(***************************************************************************)
(* The agent: the graph agent -> (tools -> agent)* -> END that             *)
(* _build_workflow compiles, run by app.astream(inputs).                   *)
(*                                                                         *)
(* The language model is the script of the responses it gives in the run;  *)
(* a response is its text and the tool requests it carries, each request   *)
(* with what its tool will meet upstream (env).                            *)
(***************************************************************************)
HumanMessage(content) ==
    [type |-> "human", content |-> content, tool_calls |-> <<>>, tool_call_id |-> 0,
     name |-> ""]
AIMessage(content, tool_calls) ==
    [type |-> "ai", content |-> content, tool_calls |-> tool_calls, tool_call_id |-> 0,
     name |-> ""]
ToolMessage(content, name, tool_call_id) ==
    [type |-> "tool", content |-> content, tool_calls |-> <<>>,
     tool_call_id |-> tool_call_id, name |-> name]

\* The tool requests issued in the transcript so far.
RECURSIVE RequestCountUpTo(_, _)
RequestCountUpTo(msgs, n) ==
    IF n = 0 THEN 0
    ELSE RequestCountUpTo(msgs, n - 1) + Len(msgs[n].tool_calls)

RequestCount(msgs) == RequestCountUpTo(msgs, Len(msgs))

\* self.llm_with_tools.invoke(messages): the model's next response; the provider
\* gives every tool request a fresh id.
Invoke(decision, msgs) ==
    AIMessage(decision.content,
              [i \in 1..Len(decision.requests) |->
                  [name |-> decision.requests[i].name,
                   args |-> decision.requests[i].args,
                   id |-> RequestCount(msgs) + i]])

add_messages_Replace(left, right) == right

\* The reducer of AgentState.messages.
add_messages(left, right) == left \o right

_call_model(state, decision) == [messages |-> <<Invoke(decision, state.messages)>>]

_should_continue_Inverted(state) ==
    IF Len(Last(state.messages).tool_calls) > 0 THEN "END" ELSE "tools"

_should_continue_AlwaysEnd(state) == "END"

_should_continue(state) ==
    IF Len(Last(state.messages).tool_calls) > 0 THEN "tools" ELSE "END"

\* The default recursion_limit of the compiled graph: astream is given no config.
RecursionLimit == 25

\* The tool registered under a name, run on the arguments of a request.
RunTool(name, args, env) ==
    CASE name = "get_coordinates_from_city" -> get_coordinates_from_city(args.city_name, env)
      [] name = "get_current_weather" -> get_current_weather(args.latitude, args.longitude, env)
      [] name = "search_wikipedia" -> search_wikipedia(args.query, env)
      [] name = "calculate" -> calculate(args.expression)

Running(env) == [kind |-> "running", env |-> env]

ToolMessages_ErrorsDropped(tool_calls, outcomes, order) ==
    SelectSeq([i \in 1..Len(tool_calls) |->
                  ToolMessage(outcomes[i].val, tool_calls[i].name, tool_calls[i].id)],
              LAMBDA m : ~(m.content.fmt = "json" /\ m.content.val.t = "dict"
                             /\ m.content.val.k = <<"error">>))

ToolMessages_FirstOnly(tool_calls, outcomes, order) ==
    <<ToolMessage(outcomes[1].val, tool_calls[1].name, tool_calls[1].id)>>

ToolMessages_AsCompleted(tool_calls, outcomes, order) ==
    [i \in 1..Len(tool_calls) |->
        ToolMessage(outcomes[order[i]].val, tool_calls[order[i]].name, tool_calls[order[i]].id)]

\* ToolNode: one ToolMessage per tool call of the last AI message, in the order of
\* the calls (the outputs of the gathered calls keep the order of the calls).
ToolMessages(tool_calls, outcomes, order) ==
    [i \in 1..Len(tool_calls) |->
        ToolMessage(outcomes[i].val, tool_calls[i].name, tool_calls[i].id)]

\* if "__end__" not in s
NotEnd(s) == s.node # "__end__"

run_query_ToolsKey(stream) ==
    LET full_response == SelectSeq(stream, NotEnd)
        final_state == Last(full_response) IN
    IF final_state.node = "tools"
    THEN Return(Last(final_state.messages).content)
    ELSE Raise("KeyError")

\* run_query: the content of the last message of the last chunk kept from the stream.
run_query(stream) ==
    LET full_response == SelectSeq(stream, NotEnd)
        final_state == Last(full_response) IN
    IF final_state.node = "agent"
    THEN Return(Last(final_state.messages).content)
    ELSE Raise("KeyError")

stream_query_AgentOnly(stream) ==
    SelectSeq(stream, LAMBDA s : s.node = "agent")

\* stream_query: every chunk of the stream, as it comes.
stream_query(stream) == stream

(***************************************************************************)
(* The runs: the query and the script of the model.                        *)
(***************************************************************************)
MaxCalls == 2
MaxRichRounds == 1
MaxPlainRounds == 13

UserQuery == PlainText(<<"What", "is", "10", "+", "5", "*", "2?">>)
FinalAnswer == PlainText(<<"The", "result", "is", "20.">>)
NoText == PlainText(<<>>)
NoEnv == [net |-> "none"]

Request(name, args, env) == [name |-> name, args |-> args, env |-> env]

PlainRequest == Request("calculate", [expression |-> TenPlusFiveTimesTwo], NoEnv)

Requests ==
    {PlainRequest,
     Request("calculate", [expression |-> <<Name("exit"), Op("("), Op(")")>>], NoEnv),
     Request("get_coordinates_from_city", [city_name |-> "imaginary_city_123"],
             Response(200, GeoData(JList(<<>>)))),
     Request("get_current_weather", [latitude |-> 51, longitude |-> 0],
             Response(200, WeatherData(WeatherCurrent(JNum(15), JNum(12), JNum(75), JNum(1),
                                                      JNum(3), JStr("2023-10-27T10:00")))))}

\* The tools are functions of their arguments and of the reply of the service they
\* ask: the outcome of each call a script can make.
ToolOutcomes == [r \in Requests |-> RunTool(r.name, r.args, r.env)]

Decision(content, requests) == [content |-> content, requests |-> requests]

RequestLists == UNION {[1..k -> Requests] : k \in 1..MaxCalls}

ToolRounds == {Decision(NoText, rs) : rs \in RequestLists}

RichScripts == UNION {[1..n -> ToolRounds] : n \in 0..MaxRichRounds}

PlainScripts == {[i \in 1..n |-> Decision(NoText, <<PlainRequest>>)] : n \in 0..MaxPlainRounds}

\* Every script ends with the response that carries no request.
Scripts == {rounds \o <<Decision(FinalAnswer, <<>>)>> : rounds \in RichScripts \cup PlainScripts}

NoResult == [kind |-> "none"]

Init ==
    /\ messages = <<HumanMessage(UserQuery)>>
    /\ pc = "agent"
    /\ step = 0
    /\ script \in Scripts
    /\ pending = <<>>
    /\ finished = <<>>
    /\ chunks = <<>>
    /\ result = NoResult
    /\ error = ""
    /\ tool_call = NoCall
    /\ tool_ret = NoRet
    /\ runs = NoRuns

State == [messages |-> messages]

\* The agent node, and the conditional edge out of it.  step counts the supersteps
\* the graph has run; a node runs only while fewer than RecursionLimit have.
CallModel ==
    /\ pc = "agent"
    /\ step < RecursionLimit
    /\ LET update == _call_model(State, Head(script))
           after == [messages |-> add_messages(messages, update.messages)]
       IN /\ messages' = after.messages
          /\ chunks' = Append(chunks, [node |-> "agent", messages |-> update.messages])
          /\ pc' = _should_continue(after)
          /\ pending' = [i \in 1..Len(Head(script).requests) |->
                            Running(Head(script).requests[i].env)]
    /\ script' = Tail(script)
    /\ step' = step + 1
    /\ finished' = <<>>
    /\ UNCHANGED <<result, error, tool_call, tool_ret, runs>>

\* The tools node: one of the sibling tool calls finishes.
ToolFinish(i) ==
    /\ pc = "tools"
    /\ step < RecursionLimit
    /\ pending[i].kind = "running"
    /\ LET call == Last(messages).tool_calls[i]
           outcome == ToolOutcomes[Request(call.name, call.args, pending[i].env)]
       IN IF outcome.kind = "raise"
          THEN /\ pc' = "error"
               /\ error' = outcome.exc
               /\ UNCHANGED <<pending, finished>>
          ELSE /\ pending' = [pending EXCEPT ![i] = outcome]
               /\ finished' = Append(finished, i)
               /\ UNCHANGED <<pc, error>>
    /\ UNCHANGED <<messages, step, script, chunks, result, tool_call, tool_ret, runs>>

\* The tools node returns its messages; the edge tools -> agent.
ToolsReturn ==
    /\ pc = "tools"
    /\ step < RecursionLimit
    /\ \A i \in 1..Len(pending) : pending[i].kind = "return"
    /\ LET tool_messages == ToolMessages(Last(messages).tool_calls, pending, finished)
       IN /\ messages' = add_messages(messages, tool_messages)
          /\ chunks' = Append(chunks, [node |-> "tools", messages |-> tool_messages])
    /\ pc' = "agent"
    /\ step' = step + 1
    /\ pending' = <<>>
    /\ UNCHANGED <<script, finished, result, error, tool_call, tool_ret, runs>>

\* The graph has run as many supersteps as its recursion limit allows: the engine
\* tests the limit before it looks for what is left to run, so the run fails also
\* when the last superstep allowed went to END.
OutOfSteps ==
    /\ pc \in {"agent", "tools", "END"}
    /\ step >= RecursionLimit
    /\ pc' = "error"
    /\ error' = "GraphRecursionError"
    /\ UNCHANGED <<messages, step, script, pending, finished, chunks, result, tool_call,
                   tool_ret, runs>>

\* The stream is exhausted: run_query returns.
Finish ==
    /\ pc = "END"
    /\ step < RecursionLimit
    /\ LET returned == run_query(chunks)
       IN IF returned.kind = "return"
          THEN /\ result' = returned
               /\ pc' = "done"
               /\ UNCHANGED error
          ELSE /\ pc' = "error"
               /\ error' = returned.exc
               /\ UNCHANGED result
    /\ UNCHANGED <<messages, step, script, pending, finished, chunks, tool_call, tool_ret, runs>>

Next ==
    \/ CallModel
    \/ \E i \in 1..Len(pending) : ToolFinish(i)
    \/ ToolsReturn
    \/ OutOfSteps
    \/ Finish

Spec == Init /\ [][Next]_vars

\* Every node that can run does run: the event loop leaves no ready step waiting.
FairSpec == Spec /\ WF_vars(Next)

(***************************************************************************)
(* Several runs on one LLMAgent instance, interleaved at the awaits of     *)
(* astream: between two nodes of one run, nodes of the other may run.      *)
(* The compiled graph has no checkpointer, and each call builds its own    *)
(* inputs. The runs here are shorter than the recursion limit.             *)
(***************************************************************************)
OtherQuery == PlainText(<<"What's", "the", "weather", "in", "imaginary_city_123?">>)
OtherAnswer == PlainText(<<"I", "could", "not", "find", "imaginary_city_123.">>)

Query(r) == IF r = 1 THEN UserQuery ELSE OtherQuery
Answer(r) == IF r = 1 THEN FinalAnswer ELSE OtherAnswer

\* The first run asks for the calculator, the second for the HTTP tools.
RequestsOf(r) == {q \in Requests : (q.name = "calculate") <=> (r = 1)}

RoundsOf(r) == {Decision(NoText, rs) : rs \in [{1} -> RequestsOf(r)] \cup [{1, 2} -> RequestsOf(r)]}

ScriptsOf(r) ==
    {<<Decision(Answer(r), <<>>)>>}
    \cup {<<d, Decision(Answer(r), <<>>)>> : d \in RoundsOf(r)}
    \cup {<<Decision(NoText, <<a>>), Decision(NoText, <<b>>), Decision(Answer(r), <<>>)>> :
            a \in RequestsOf(r), b \in RequestsOf(r)}

\* The transcript of the other call, as it stands.
OtherTranscript(r) == runs[CHOOSE s \in Runs : s # r].messages

Inputs_Shared(query, others) == [messages |-> others \o <<HumanMessage(query)>>]

\* inputs = {"messages": [HumanMessage(content=query)]}
Inputs(query, others) == [messages |-> <<HumanMessage(query)>>]

ConcInit ==
    /\ messages = <<>>
    /\ pc = "idle"
    /\ step = 0
    /\ script = <<>>
    /\ pending = <<>>
    /\ finished = <<>>
    /\ chunks = <<>>
    /\ result = PlainText(<<>>)
    /\ error = ""
    /\ tool_call = NoCall
    /\ tool_ret = NoRet
    /\ runs = NoRuns

conc_unchanged ==
    <<messages, pc, step, script, pending, finished, chunks, result, error, tool_call,
      tool_ret>>

\* run_query(query) / stream_query(query) is called.
StartRun(r) ==
    /\ runs[r].pc = "idle"
    /\ \E sc \in ScriptsOf(r) :
           runs' = [runs EXCEPT ![r] =
                       [IdleRun EXCEPT !.pc = "agent",
                                       !.messages = Inputs(Query(r), OtherTranscript(r)).messages,
                                       !.script = sc]]
    /\ UNCHANGED conc_unchanged

\* The agent node of run r, and the conditional edge out of it.
RunCallModel(r) ==
    /\ runs[r].pc = "agent"
    /\ LET run == runs[r]
           update == _call_model([messages |-> run.messages], Head(run.script))
           after == [messages |-> add_messages(run.messages, update.messages)]
       IN runs' = [runs EXCEPT ![r] =
                          [run EXCEPT
                              !.messages = after.messages,
                              !.chunks = Append(run.chunks,
                                                [node |-> "agent", messages |-> update.messages]),
                              !.pc = _should_continue(after),
                              !.pending = [i \in 1..Len(Head(run.script).requests) |->
                                              Running(Head(run.script).requests[i].env)],
                              !.finished = <<>>,
                              !.script = Tail(run.script)]]
    /\ UNCHANGED conc_unchanged

\* The tools node of run r: one of the sibling tool calls finishes; the node fails
\* on the first call to raise.
RunToolFinish(r, i) ==
    /\ runs[r].pc = "tools"
    /\ runs[r].pending[i].kind = "running"
    /\ LET run == runs[r]
           call == Last(run.messages).tool_calls[i]
           outcome == ToolOutcomes[Request(call.name, call.args, run.pending[i].env)]
       IN IF outcome.kind = "raise"
          THEN runs' = [runs EXCEPT ![r] = [run EXCEPT !.pc = "error", !.error = outcome.exc]]
          ELSE runs' = [runs EXCEPT ![r] =
                           [run EXCEPT !.pending = [run.pending EXCEPT ![i] = outcome],
                                       !.finished = Append(run.finished, i)]]
    /\ UNCHANGED conc_unchanged

\* The tools node of run r returns its messages; the edge tools -> agent.
RunToolsReturn(r) ==
    /\ runs[r].pc = "tools"
    /\ \A i \in 1..Len(runs[r].pending) : runs[r].pending[i].kind = "return"
    /\ LET run == runs[r]
           tool_messages == ToolMessages(Last(run.messages).tool_calls, run.pending,
                                         run.finished)
       IN runs' = [runs EXCEPT ![r] =
                      [run EXCEPT
                          !.messages = add_messages(run.messages, tool_messages),
                          !.chunks = Append(run.chunks,
                                            [node |-> "tools", messages |-> tool_messages]),
                          !.pc = "agent",
                          !.pending = <<>>]]
    /\ UNCHANGED conc_unchanged

\* The stream of run r is exhausted: run_query returns.
RunFinish(r) ==
    /\ runs[r].pc = "END"
    /\ LET run == runs[r]
           returned == run_query(run.chunks)
       IN IF returned.kind = "return"
          THEN runs' = [runs EXCEPT ![r] = [run EXCEPT !.pc = "done", !.result = returned]]
          ELSE runs' = [runs EXCEPT ![r] = [run EXCEPT !.pc = "error", !.error = returned.exc]]
    /\ UNCHANGED conc_unchanged

ConcNext ==
    \E r \in Runs :
        \/ StartRun(r)
        \/ RunCallModel(r)
        \/ \E i \in 1..Len(runs[r].pending) : RunToolFinish(r, i)
        \/ RunToolsReturn(r)
        \/ RunFinish(r)

ConcSpec == ConcInit /\ [][ConcNext]_vars

(***************************************************************************)
(* Properties of the tools.                                                *)
(***************************************************************************)
HttpTools == {"get_coordinates_from_city", "get_current_weather", "search_wikipedia"}

Called(name) == tool_call.name = name

\* The service answered: the request went through and the status is 200.
Answered == tool_call.env.net = "ok" /\ tool_call.env.status = 200

\* The message of a returned {"error": ...} payload, <<>> if the text is none.
ErrorText(ret) ==
    IF /\ ret.kind = "return"
       /\ ret.val.fmt = "json"
       /\ ret.val.val.t = "dict"
       /\ ret.val.val.k = <<"error">>
    THEN ret.val.val.v["error"].v
    ELSE <<>>

IsErrorPayload(ret) == ErrorText(ret) # <<>>

\* C6: every call of each of the four tools, whatever its argument and whatever the
\* upstream does, returns a text; none lets an exception through to its caller.
C6_ToolsNeverRaise == tool_call # NoCall => tool_ret.kind = "return"

\* The geocoding service found no match: the body is an object whose "results" are
\* absent, null or an empty list.
ZeroMatches ==
    /\ Answered
    /\ tool_call.env.body.t = "dict"
    /\ \/ ~HasKey(tool_call.env.body, "results")
       \/ tool_call.env.body.v["results"] \in {JNull, JList(<<>>)}

\* C7: with zero geocoding matches get_coordinates_from_city(c) returns exactly
\* {"error": "Could not find coordinates for city: c"}, whatever c is.
C7_ZeroMatchesNotFound ==
    (Called("get_coordinates_from_city") /\ ZeroMatches) =>
        tool_ret =
            [kind |-> "return",
             val |-> [fmt |-> "json",
                      val |-> [t |-> "dict", k |-> <<"error">>,
                               v |-> [error |->
                                        [t |-> "str",
                                         v |-> <<"Could", "not", "find", "coordinates", "for",
                                                 "city:", tool_call.args.city_name>>]]]]]

C7_Witness ==
    /\ Called("get_coordinates_from_city")
    /\ ZeroMatches
    /\ tool_call.env.body = GeoData(JList(<<>>))
    /\ tool_call.args.city_name = "imaginary_city_123"
    /\ ErrorText(tool_ret)[7] = "imaginary_city_123"

\* str.lower() on the words the tools' messages are made of.
Lower(w) ==
    CASE w = "No" -> "no"
      [] w = "Wikipedia" -> "wikipedia"
      [] w = "Failed" -> "failed"
      [] w = "Error" -> "error"
      [] w = "An" -> "an"
      [] w = "API" -> "api"
      [] w = "API:" -> "api:"
      [] w = "API." -> "api."
      [] w = "JSON" -> "json"
      [] OTHER -> w

LowerText(text) == [i \in 1..Len(text) |-> Lower(text[i])]

\* phrase in text
Contains(text, phrase) ==
    \E i \in 0..(Len(text) - Len(phrase)) : SubSeq(text, i + 1, i + Len(phrase)) = phrase

\* The encyclopedia service has no article: no page entries, or every entry is
\* marked missing.
NoArticle ==
    /\ Answered
    /\ tool_call.env.body.t = "dict"
    /\ LET data == tool_call.env.body
           q == DictGet(data, "query", JEmptyDict)
           pages == IF q.t = "dict" THEN DictGet(q, "pages", JEmptyDict) ELSE JNull
       IN /\ q.t = "dict"
          /\ pages.t = "dict"
          /\ \A i \in 1..Len(pages.k) :
                 /\ pages.v[pages.k[i]].t = "dict"
                 /\ HasKey(pages.v[pages.k[i]], "missing")

\* C8: when the encyclopedia service has no article for the query, search_wikipedia
\* returns an error payload whose text contains "No Wikipedia article found",
\* compared case-insensitively.
C8_NoArticleNotFound ==
    (Called("search_wikipedia") /\ NoArticle) =>
        /\ IsErrorPayload(tool_ret)
        /\ Contains(LowerText(ErrorText(tool_ret)),
                    LowerText(<<"No", "Wikipedia", "article", "found">>))

C8_Witness ==
    /\ Called("search_wikipedia")
    /\ NoArticle
    /\ Len(DictGet(DictGet(tool_call.env.body, "query", JEmptyDict), "pages", JEmptyDict).k) = 1
    /\ tool_call.args.query = "Zorp the Destroyer"
    /\ IsErrorPayload(tool_ret)

\* The name each HTTP tool gives its service in its messages.
Api ==
    CASE Called("get_coordinates_from_city") -> "Geocoding"
      [] Called("get_current_weather") -> "Weather"
      [] Called("search_wikipedia") -> "Wikipedia"

TimedOutText == <<Api, "API", "request", "timed", "out.">>
TransientPrefix == <<"Error", "connecting", "to", Api, "API:">>
DecodeText == <<"Failed", "to", "decode", "JSON", "response", "from", Api, "API.">>
SchemaPrefix == <<"Failed", "to", "validate">>

StartsWith(text, prefix) ==
    Len(text) >= Len(prefix) /\ SubSeq(text, 1, Len(prefix)) = prefix

\* The classes of upstream failure.
NetTimeout == tool_call.env.net \in {"ReadTimeout", "ConnectTimeout"}
OtherNetFailure == tool_call.env.net = "ConnectionError"
Non2xx == tool_call.env.net = "ok" /\ ~(tool_call.env.status \in 200..299)
Undecodable ==
    tool_call.env.net = "ok" /\ tool_call.env.status \in 200..299
    /\ tool_call.env.body.t = "invalid"

\* C9: for the three HTTP tools the class of the upstream failure determines the
\* error payload: a timeout the timed-out payload, another connection failure or a
\* non-2xx status the connection-error payload, a body that is not JSON the
\* decode-failure payload; a schema-validation or a success payload is returned
\* only when none of these applies.
C9_FailureClasses ==
    tool_call.name \in HttpTools =>
        /\ NetTimeout => ErrorText(tool_ret) = TimedOutText
        /\ (OtherNetFailure \/ Non2xx) => StartsWith(ErrorText(tool_ret), TransientPrefix)
        /\ Undecodable => ErrorText(tool_ret) = DecodeText
        /\ (~IsErrorPayload(tool_ret) \/ StartsWith(ErrorText(tool_ret), SchemaPrefix)) =>
               ~(NetTimeout \/ OtherNetFailure \/ Non2xx \/ Undecodable)

(***************************************************************************)
(* The value of an arithmetic expression under standard precedence, as an  *)
(* exact fraction; undefined (ok = FALSE) on a division by zero, a         *)
(* fractional exponent, or outside the range of the model.                 *)
(***************************************************************************)
Undefined == [ok |-> FALSE, num |-> 0, den |-> 1]

Rat(num, den) ==
    LET g == GCD(Abs(num), Abs(den))
        sign == IF den < 0 THEN -1 ELSE 1
    IN IF Abs(num) > MaxMagnitude * MaxDenominator \/ Abs(den) > MaxDenominator
       THEN Undefined
       ELSE [ok |-> TRUE, num |-> sign * (num \div g), den |-> sign * (den \div g)]

MathOp(o, a, b) ==
    CASE o = "+" -> Rat(a.num * b.den + b.num * a.den, a.den * b.den)
      [] o = "-" -> Rat(a.num * b.den - b.num * a.den, a.den * b.den)
      [] o = "*" -> IF b.num # 0 /\ Abs(a.num) > (MaxMagnitude * MaxDenominator) \div Abs(b.num)
                    THEN Undefined
                    ELSE Rat(a.num * b.num, a.den * b.den)
      [] o = "/" -> IF b.num = 0 THEN Undefined ELSE Rat(a.num * b.den, a.den * b.num)
      [] o = "pow" ->
            IF b.den # 1 \/ (b.num < 0 /\ a.num = 0) THEN Undefined
            ELSE LET n == SatPow(a.num, Abs(b.num))
                     d == SatPow(a.den, Abs(b.num))
                 IN IF Abs(n) > MaxMagnitude * MaxDenominator \/ d > MaxMagnitude * MaxDenominator
                    THEN Undefined
                    ELSE IF b.num < 0 THEN Rat(d, n) ELSE Rat(n, d)

RECURSIVE MathValue(_)
MathValue(e) ==
    IF e.op = "num" THEN Rat(e.n, 1)
    ELSE LET l == MathValue(e.l)
             r == MathValue(e.r)
         IN IF l.ok /\ r.ok THEN MathOp(e.o, l, r) ELSE Undefined

\* The decimal numerals of a value: the integer numeral if it is whole, and the
\* numeral with a decimal point (a zero may carry a sign).
Numerals(v) ==
    (IF v.den = 1 THEN {IntChars(v.num)} ELSE {})
    \cup {FloatChars(v.num, v.den)}
    \cup (IF v.num = 0 THEN {<<"-", "0", ".", "0">>} ELSE {})

ReturnsValueOf(e) ==
    /\ tool_ret.kind = "return"
    /\ tool_ret.val.fmt = "plain"
    /\ tool_ret.val.val \in Numerals(MathValue(e))

Arithmetic(syntax) ==
    /\ Called("calculate")
    /\ tool_call.env.intent # NoIntent
    /\ tool_call.env.syntax = syntax
    /\ MathValue(tool_call.env.intent).ok

\* C10: for an arithmetic expression written in the spec's grammar, exponentiation
\* as ^, calculate returns the text of its value under standard precedence.
C10_SpecGrammarValue ==
    Arithmetic("spec") => ReturnsValueOf(tool_call.env.intent)

\* The text is outside every grammar of arithmetic: it refers to a name, calls
\* something, has parentheses around nothing, or is malformed.
OutsideGrammar(toks) ==
    \/ \E i \in 1..Len(toks) : toks[i].k = "name"
    \/ \E i \in 2..Len(toks) : IsOp(toks[i - 1], {"("}) /\ IsOp(toks[i], {")"})
    \/ \E i \in 2..Len(toks) :
           /\ toks[i].k = "op" /\ toks[i].s = "("
           /\ \/ toks[i - 1].k \in {"num", "name"}
              \/ (toks[i - 1].k = "op" /\ toks[i - 1].s = ")")
    \/ PyParse(toks).kind = "raise"

\* C11: every input of calculate outside the restricted grammar (malformed, or
\* referring to a name or a call) yields a text that begins with "Error" and is not
\* executed: the call returns, and returns nothing else.
C11_OutsideGrammarRejected ==
    (Called("calculate") /\ OutsideGrammar(tool_call.args.expression)) =>
        /\ tool_ret.kind = "return"
        /\ tool_ret.val.fmt = "plain"
        /\ Len(tool_ret.val.val) > 0
        /\ tool_ret.val.val[1] \in {"Error", "Error:"}

(***************************************************************************)
(* Properties of the agent.                                                *)
(***************************************************************************)
\* The positions of the assistant messages and of the tool-result messages.
AIPositions == {p \in 1..Len(messages) : messages[p].type = "ai"}
ToolPositions == {q \in 1..Len(messages) : messages[q].type = "tool"}

\* The tool requests of the transcript: <<position of the message, index in it>>.
RequestSlots ==
    {<<p, j>> \in (1..Len(messages)) \X (1..MaxCalls + 1) :
        messages[p].type = "ai" /\ j <= Len(messages[p].tool_calls)}

Answers(q, slot) ==
    /\ messages[q].tool_call_id = messages[slot[1]].tool_calls[slot[2]].id
    /\ slot[1] < q

\* The model invocations that fit in the recursion limit, agent and tools alternating,
\* and the last of them after which the limit leaves the run a superstep to end in.
MaxInvocations == (RecursionLimit + 1) \div 2
LastAnswering == RecursionLimit \div 2

LatestResponse == messages[CHOOSE p \in AIPositions : \A r \in AIPositions : r <= p]

CarriesRequest(m) == Len(m.tool_calls) > 0

\* C1: whenever the model is about to be invoked and whenever the run has ended in a
\* direct answer, tool requests and tool results correspond one to one: every request
\* has exactly one result, after it, and every result answers exactly one request.
C1_RequestsMatchResults ==
    pc \in {"agent", "END", "done"} =>
        /\ \A slot \in RequestSlots :
               Cardinality({q \in ToolPositions : Answers(q, slot)}) = 1
        /\ \A q \in ToolPositions :
               Cardinality({slot \in RequestSlots : Answers(q, slot)}) = 1

C1_Witness ==
    /\ pc = "done"
    /\ Cardinality(RequestSlots) >= 2
    /\ Cardinality(ToolPositions) >= 2

\* C2: the results of the k requests of an assistant message stand directly after it,
\* in the order of the requests, and all k are there before the next assistant
\* message and before the model is invoked again, whatever order the tools finished in.
C2_ResultsInRequestOrder ==
    \A p \in AIPositions :
        LET calls == messages[p].tool_calls IN
        (Len(messages) > p \/ pc = "agent") =>
            /\ Len(messages) >= p + Len(calls)
            /\ \A j \in 1..Len(calls) :
                   /\ messages[p + j].type = "tool"
                   /\ messages[p + j].tool_call_id = calls[j].id
                   /\ messages[p + j].name = calls[j].name

\* Two siblings of different tools finished in the reverse of the request order.
C2_Witness ==
    /\ pc = "agent"
    /\ finished = <<2, 1>>
    /\ Len(messages) = 4
    /\ messages[3].name # messages[4].name
    /\ messages[3].tool_call_id = 1
    /\ messages[4].tool_call_id = 2

\* C3 as amended: the run reaches END exactly when the model's latest response
\* carries no tool request: only from the agent node, never from the tools node, and
\* always then; run_query then returns the content of that response, unless the
\* response came in the last superstep the recursion limit allows, when the run
\* fails with GraphRecursionError and returns nothing.
C3_EndsOnDirectAnswerWithinLimit ==
    /\ [](pc \in {"END", "done"} =>
            /\ Last(messages).type = "ai"
            /\ ~CarriesRequest(Last(messages)))
    /\ [](pc = "done" => result = Return(Last(messages).content))
    /\ [][/\ (pc' = "END" /\ pc # "END") =>
                (pc = "agent" /\ ~CarriesRequest(Last(messages')))
          /\ (pc = "agent" /\ Len(messages') > Len(messages)
                /\ ~CarriesRequest(Last(messages'))) => pc' = "END"
          /\ (pc = "END" /\ pc' # "END" /\ step < RecursionLimit) =>
                (pc' = "done" /\ result' = Return(Last(messages).content))
          /\ (pc = "END" /\ pc' # "END" /\ step >= RecursionLimit) =>
                (pc' = "error" /\ error' = "GraphRecursionError" /\ result' = NoResult)
          /\ (pc' = "done") => (pc = "END" /\ Cardinality(AIPositions) <= LastAnswering)
         ]_vars

\* C3 as stated: the run reaches END exactly when the model's latest response carries
\* no tool request: only from the agent node, never from the tools node, and always
\* then; run_query returns the content of that response.
C3_EndsOnDirectAnswer ==
    /\ [](pc \in {"END", "done"} =>
            /\ Last(messages).type = "ai"
            /\ ~CarriesRequest(Last(messages)))
    /\ [](pc = "done" => result = Return(Last(messages).content))
    /\ [][/\ (pc' = "END" /\ pc # "END") =>
                (pc = "agent" /\ ~CarriesRequest(Last(messages')))
          /\ (pc = "agent" /\ Len(messages') > Len(messages)
                /\ ~CarriesRequest(Last(messages'))) => pc' = "END"
          /\ (pc = "END") => pc' \in {"END", "done"}]_vars

\* The model's last response the limit allows was its direct answer, after
\* LastAnswering rounds of tools: the run failed and returned nothing.
C3_Witness ==
    /\ pc = "error"
    /\ error = "GraphRecursionError"
    /\ result = NoResult
    /\ Last(messages).type = "ai"
    /\ ~CarriesRequest(Last(messages))
    /\ Cardinality(AIPositions) = MaxInvocations

\* Every tool call of the script returns.
AllToolsReturn ==
    \A r \in 1..Len(script) : \A j \in 1..Len(script[r].requests) :
        ToolOutcomes[script[r].requests[j]].kind = "return"


\* C4 as stated: if every tool call returns, the run (whose model eventually answers
\* without a tool request) eventually ends with the final answer.
C4_EndsWithFinalAnswer ==
    AllToolsReturn => <>(pc = "done" /\ result = Return(FinalAnswer))

\* C4 as amended: if every tool call returns, the run eventually stops: with the final
\* answer when the response without tool request is among the model's first
\* LastAnswering responses, with GraphRecursionError otherwise.
C4_Terminates ==
    /\ (AllToolsReturn /\ Len(script) <= LastAnswering) =>
           <>[](pc = "done" /\ result = Return(FinalAnswer))
    /\ (AllToolsReturn /\ Len(script) > LastAnswering) =>
           <>[](pc = "error" /\ error = "GraphRecursionError" /\ result = NoResult)

\* The longest run that still ends with its answer.
C4_Witness ==
    /\ pc = "done"
    /\ result = Return(FinalAnswer)
    /\ Cardinality(AIPositions) = LastAnswering

\* The run was ended by the loop, not by a tool that failed.
EndedByLoop == pc \in {"END", "done"} \/ (pc = "error" /\ error = "GraphRecursionError")

\* The Executing phases performed so far.
ExecutingPhases == Cardinality({c \in 1..Len(chunks) : chunks[c].node = "tools"})

\* C5 as stated: the loop never ends a run on its own while the latest model
\* response carries a tool request.
C5_NeverEndsWithRequest == EndedByLoop => ~CarriesRequest(LatestResponse)

\* C5 as amended: before its (n+1)-th invocation, n < MaxInvocations, the model's n
\* responses all carried requests and the loop has performed n Executing phases, and
\* the recursion limit leaves room for the invocation; the loop returns no answer
\* while the latest response carries a request, and ends the run with a request in
\* the latest response only by GraphRecursionError, after MaxInvocations responses
\* that all carried requests and MaxInvocations - 1 Executing phases: the requests
\* of the last response are not run.
C5_BoundedByRecursionLimit ==
    /\ pc = "agent" =>
           /\ Cardinality(AIPositions) < MaxInvocations
           /\ \A p \in AIPositions : CarriesRequest(messages[p])
           /\ ExecutingPhases = Cardinality(AIPositions)
           /\ step < RecursionLimit
    /\ Cardinality(AIPositions) <= MaxInvocations
    /\ ExecutingPhases <= MaxInvocations - 1
    /\ pc \in {"END", "done"} => ~CarriesRequest(LatestResponse)
    /\ (EndedByLoop /\ CarriesRequest(LatestResponse)) =>
           /\ error = "GraphRecursionError"
           /\ result = NoResult
           /\ Cardinality(AIPositions) = MaxInvocations
           /\ \A p \in AIPositions : CarriesRequest(messages[p])
           /\ ExecutingPhases = MaxInvocations - 1
           /\ \A i \in 1..Len(pending) : pending[i].kind = "running"

\* The model is about to be invoked for the last time the limit allows.
C5_Witness ==
    /\ pc = "agent"
    /\ Cardinality(AIPositions) = MaxInvocations - 1
    /\ ExecutingPhases = MaxInvocations - 1
    /\ step < RecursionLimit

\* The messages a consumer of the chunks sees, in the order it sees them.
RECURSIVE ExposedUpTo(_, _)
ExposedUpTo(stream, n) ==
    IF n = 0 THEN <<>> ELSE ExposedUpTo(stream, n - 1) \o stream[n].messages

Exposed(stream) == ExposedUpTo(stream, Len(stream))

\* The mutations of the transcript: everything after the user's query.
Mutations == SubSeq(messages, 2, Len(messages))

\* C12: what stream_query yields exposes every mutation of the transcript exactly
\* once and in order, and run_query returns the content of the last message that
\* stream_query exposes.
C12_StreamExposesMutationsOnce ==
    /\ Exposed(stream_query(chunks)) = Mutations
    /\ pc = "done" => result = Return(Last(Exposed(stream_query(chunks))).content)

\* A finished run with two sibling tool results: three chunks, four mutations.
C12_Witness ==
    /\ pc = "done"
    /\ Len(stream_query(chunks)) = 3
    /\ stream_query(chunks)[2].node = "tools"
    /\ Len(stream_query(chunks)[2].messages) = 2
    /\ Len(Mutations) = 4

\* The message at position i of the transcript msgs belongs to run r: it is r's
\* query, a response of the model in one of r's conversations, or the result of a
\* request made earlier in msgs.
BelongsTo(r, msgs, i) ==
    LET m == msgs[i] IN
    CASE m.type = "human" -> i = 1 /\ m = HumanMessage(Query(r))
      [] m.type = "ai" ->
            \E sc \in ScriptsOf(r) : \E k \in 1..Len(sc) :
                /\ m.content = sc[k].content
                /\ Len(m.tool_calls) = Len(sc[k].requests)
                /\ \A j \in 1..Len(m.tool_calls) :
                       /\ m.tool_calls[j].name = sc[k].requests[j].name
                       /\ m.tool_calls[j].args = sc[k].requests[j].args
      [] m.type = "tool" ->
            \E p \in 1..(i - 1) : \E j \in 1..Len(msgs[p].tool_calls) :
                /\ msgs[p].tool_calls[j].id = m.tool_call_id
                /\ msgs[p].tool_calls[j].name = m.name

\* C13: however the runs on one LLMAgent interleave, the transcript of each starts
\* with its own query and holds only its own messages; no message of one run is in
\* the transcript of another, also when the other finished before this one started.
C13_RunsIsolated ==
    \A r \in Runs :
        runs[r].pc # "idle" =>
            /\ runs[r].messages[1] = HumanMessage(Query(r))
            /\ \A i \in 1..Len(runs[r].messages) : BelongsTo(r, runs[r].messages, i)
            /\ \A s \in Runs \ {r} :
                   \A i \in 1..Len(runs[r].messages) : \A j \in 1..Len(runs[s].messages) :
                       runs[r].messages[i] # runs[s].messages[j]

\* The second run is in its tools node after the first, with tool results in its
\* transcript, has finished.
C13_Witness ==
    /\ runs[1].pc = "done"
    /\ Len(runs[1].messages) >= 4
    /\ runs[2].pc = "tools"
    /\ Len(runs[2].messages) = 2

\* The tools node has every result and has not returned yet.
AllReturned == pc = "tools" /\ \A i \in 1..Len(pending) : pending[i].kind = "return"

\* C14: the loop handles tool results opaquely: whatever they contain, the tools node
\* appends each result unchanged as one tool message and goes back to the agent
\* node; a result is neither run again nor dropped, the run does not end or fail in
\* the tools node once the results are there, and the edge out of the agent node
\* depends only on whether the latest response carries a tool request.
C14_ResultsHandledOpaquely ==
    [][/\ (pc = "tools" /\ messages' # messages) =>
              /\ pc' = "agent"
              /\ Len(messages') = Len(messages) + Len(pending)
              /\ SubSeq(messages', 1, Len(messages)) = messages
              /\ \A i \in 1..Len(pending) :
                     /\ messages'[Len(messages) + i].type = "tool"
                     /\ messages'[Len(messages) + i].content = pending[i].val
       /\ AllReturned => (pc' \in {"tools", "agent"} /\ error' = error)
       /\ (pc = "tools" /\ pc' = "tools") =>
              \A i \in 1..Len(pending) :
                  pending[i].kind = "return" => pending'[i] = pending[i]
       /\ (pc = "agent" /\ messages' # messages) =>
              pc' = (IF CarriesRequest(Last(messages')) THEN "tools" ELSE "END")]_vars

\* A finished run whose transcript holds an error payload, followed by a response.
C14_Witness ==
    /\ pc = "done"
    /\ \E q \in ToolPositions :
           /\ IsErrorPayload(Return(messages[q].content))
           /\ \E p \in AIPositions : p > q

\* C15: the transcript of a run is append-only: it starts as the one user message
\* with the query; every step keeps the earlier messages unchanged and in place
\* and only appends; a model invocation appends the one response, made from the
\* whole transcript so far (its requests are numbered after all earlier ones).
C15_TranscriptAppendOnly ==
    /\ messages = <<HumanMessage(UserQuery)>>
    /\ [][/\ Len(messages') >= Len(messages)
          /\ SubSeq(messages', 1, Len(messages)) = messages
          /\ (pc = "agent" /\ messages' # messages) =>
                 /\ Len(messages') = Len(messages) + 1
                 /\ Last(messages').type = "ai"
                 /\ \A j \in 1..Len(Last(messages').tool_calls) :
                        Last(messages').tool_calls[j].id = RequestCount(messages) + j]_vars

\* A finished run of two rounds of tools: query, response, result, response,
\* result, answer, at least.
C15_Witness ==
    /\ pc = "done"
    /\ Len(messages) >= 6
    /\ messages[1] = HumanMessage(UserQuery)
    /\ Cardinality(AIPositions) >= 3

====
